---- MODULE Spec2Model ----
(***************************************************************************)
(* Model of src/src/lib.rs: the winit ApplicationHandler `App` that owns   *)
(* an Option<State> and, on wasm32, an Option<EventLoopProxy<State>>.      *)
(* The two cfg(target_arch) builds are the two values of `path`.           *)
(***************************************************************************)
EXTENDS Integers, Sequences, FiniteSets, TLC

\* ------------------------------------------------------------------ bounds
\* number of events the host loop hands to the handler in one behaviour
MaxEvents == 4

\* ------------------------------------------------------------ value domains
Paths == {"native", "wasm"}

\* PhysicalKey::Code(code) values tried, and the two ElementState values
KeyCodes == {"Escape", "KeyA"}

\* window sizes the host can report (width, height), width # height
Sizes == {<<800, 600>>, <<640, 480>>}

\* Option<T>: None, Some(window id of the State / a proxy)
None == [some |-> FALSE, window |-> 0]

Some(w) == [some |-> TRUE, window |-> w]

\* --------------------------------------------------------------- the events
Event(kind, code, pressed, wid, width, height) ==
    [kind |-> kind, code |-> code, pressed |-> pressed,
     wid |-> wid, width |-> width, height |-> height]

ResumedEv == Event("Resumed", "", FALSE, 0, 0, 0)

UserEv(w) == Event("UserEvent", "", FALSE, w, 0, 0)

CloseRequested == Event("CloseRequested", "", FALSE, 0, 0, 0)

RedrawRequested == Event("RedrawRequested", "", FALSE, 0, 0, 0)

\* a WindowEvent variant the match at lines 219-244 sends to `_ => {}`
Focused == Event("Focused", "", FALSE, 0, 0, 0)

Resized(wid, s) == Event("Resized", "", FALSE, wid, s[1], s[2])

KeyboardInput(code, pressed) == Event("KeyboardInput", code, pressed, 0, 0, 0)

EscapePressed == KeyboardInput("Escape", TRUE)

\* ---------------------------------------------------------------- the calls
\* one record per call the handlers make on a collaborator
Call(op, window, width, height) ==
    [op |-> op, window |-> window, width |-> width, height |-> height]

\* State::new: the anyhow::Result it returns; `ok` is the outcome of the
\* construction (the body at line 41 returns Ok, the Err variant is the one
\* the callers at lines 154 and 183 unwrap)
State_new(window, ok) == [ok |-> ok, value |-> Some(window)]

\* State::resize is an empty body: the call is made, the State is unchanged
State_resize(st, width, height) == <<Call("resize", st.window, width, height)>>

State_render_noredraw(st) == <<Call("render", st.window, 0, 0)>>

\* State::render: one request_redraw on the owned window
State_render(st) ==
    <<Call("render", st.window, 0, 0), Call("request_redraw", st.window, 0, 0)>>

\* Option::take: the value taken and what is left in the slot
take_keep(opt) == [value |-> opt, rest |-> opt]

take(opt) == [value |-> opt, rest |-> None]

\* Result::unwrap / Result::expect: panic on Err, the value on Ok
unwrap_err(r) == [panic |-> r.ok, value |-> r.value]

unwrap_or_value(r) == [panic |-> FALSE, value |-> r.value]

unwrap(r) == [panic |-> ~r.ok, value |-> r.value]

\* the assignment self.state = Some(..) of lines 154 and 205: the new slot
store_lost(slot, st) == slot

store(slot, st) == st

\* the calls of App::user_event before it stores the State (lines 197-204);
\* `size` is event.window.inner_size()
user_event_swapped(p, event, size) ==
    IF p = "wasm"
    THEN <<Call("request_redraw", event.window, 0, 0)>>
         \o State_resize(event, size[2], size[1])
    ELSE <<>>

user_event_noredraw(p, event, size) ==
    IF p = "wasm" THEN State_resize(event, size[1], size[2]) ELSE <<>>

user_event_calls(p, event, size) ==
    IF p = "wasm"
    THEN <<Call("request_redraw", event.window, 0, 0)>>
         \o State_resize(event, size[1], size[2])
    ELSE <<>>

\* the calls of App::window_event (lines 214-244) for the slot `st`
window_event_nocheck(st, event) ==
    CASE event.kind = "CloseRequested" -> <<Call("exit", 0, 0, 0)>>
      [] event.kind = "Resized" -> State_resize(st, event.width, event.height)
      [] event.kind = "RedrawRequested" -> State_render(st)
      [] event.kind = "KeyboardInput" ->
            IF event.code = "Escape" /\ event.pressed
            THEN <<Call("exit", 0, 0, 0)>> ELSE <<>>
      [] OTHER -> <<>>

window_event_anystate(st, event) ==
    IF ~st.some
    THEN <<>>
    ELSE CASE event.kind = "CloseRequested" -> <<Call("exit", 0, 0, 0)>>
           [] event.kind = "Resized" -> State_resize(st, event.width, event.height)
           [] event.kind = "RedrawRequested" -> State_render(st)
           [] event.kind = "KeyboardInput" ->
                 IF event.code = "Escape"
                 THEN <<Call("exit", 0, 0, 0)>> ELSE <<>>
           [] OTHER -> <<>>

window_event_escrender(st, event) ==
    IF ~st.some
    THEN <<>>
    ELSE CASE event.kind = "CloseRequested" -> <<Call("exit", 0, 0, 0)>>
           [] event.kind = "Resized" -> State_resize(st, event.width, event.height)
           [] event.kind = "RedrawRequested" -> State_render(st)
           [] event.kind = "KeyboardInput" ->
                 IF event.code = "Escape" /\ event.pressed
                 THEN State_render(st) \o <<Call("exit", 0, 0, 0)>> ELSE <<>>
           [] OTHER -> <<>>

window_event_noescape(st, event) ==
    IF ~st.some
    THEN <<>>
    ELSE CASE event.kind = "CloseRequested" -> <<Call("exit", 0, 0, 0)>>
           [] event.kind = "Resized" -> State_resize(st, event.width, event.height)
           [] event.kind = "RedrawRequested" -> State_render(st)
           [] OTHER -> <<>>

window_event_closeany(st, event) ==
    IF event.kind = "CloseRequested"
    THEN <<Call("exit", 0, 0, 0)>>
    ELSE IF ~st.some
    THEN <<>>
    ELSE CASE event.kind = "Resized" -> State_resize(st, event.width, event.height)
           [] event.kind = "RedrawRequested" -> State_render(st)
           [] event.kind = "KeyboardInput" ->
                 IF event.code = "Escape" /\ event.pressed
                 THEN <<Call("exit", 0, 0, 0)>> ELSE <<>>
           [] OTHER -> <<>>

window_event_calls(st, event) ==
    IF ~st.some
    THEN <<>>
    ELSE CASE event.kind = "CloseRequested" -> <<Call("exit", 0, 0, 0)>>
           [] event.kind = "Resized" -> State_resize(st, event.width, event.height)
           [] event.kind = "RedrawRequested" -> State_render(st)
           [] event.kind = "KeyboardInput" ->
                 IF event.code = "Escape" /\ event.pressed
                 THEN <<Call("exit", 0, 0, 0)>> ELSE <<>>
           [] OTHER -> <<>>

\* ----------------------------------------------------------------- the state
VARIABLES
    path,      \* which cfg(target_arch) build runs: "native" or "wasm"
    state,     \* App.state: Option<State>
    proxy,     \* App.proxy: Option<EventLoopProxy<State>> (wasm only)
    windows,   \* the windows create_window returned: id -> inner_size()
    tasks,     \* futures handed to spawn_local and not yet run: window ids
    queue,     \* user events sent through the proxy and not yet delivered
    failed,    \* windows whose State::new returned Err
    hist,      \* the events the handler was called with, in order
    calls,     \* the calls the handlers made, in order
    closed,    \* the host loop has stopped after exit()
    halt       \* "running", or the failure that ended the process

vars == <<path, state, proxy, windows, tasks, queue, failed, hist, calls, closed, halt>>

\* a handler's calls, stamped with whether App.state was Some when they were
\* made and with the index in hist of the event being handled (0: a task)
Stamp(cs, filled, at) ==
    [i \in DOMAIN cs |->
        [op |-> cs[i].op, window |-> cs[i].window, width |-> cs[i].width,
         height |-> cs[i].height, slot |-> filled, at |-> at]]

CallsOf(op) == {i \in DOMAIN calls : calls[i].op = op}

Count(op) == Cardinality(CallsOf(op))

\* ActiveEventLoop::exiting(): exit() has been called
exiting == Count("exit") > 0

Running == halt = "running" /\ ~closed

\* App::new (lines 73-81) on either build
Init ==
    /\ path \in Paths
    /\ state = None
    /\ proxy = IF path = "wasm" THEN Some(0) ELSE None
    /\ windows = <<>>
    /\ tasks = {}
    /\ queue = <<>>
    /\ failed = {}
    /\ hist = <<>>
    /\ calls = <<>>
    /\ closed = FALSE
    /\ halt = "running"

resumed_takefirst(canvasOk, createOk, size, constructOk) ==
    /\ Running
    /\ Len(hist) < MaxEvents
    /\ hist' = Append(hist, ResumedEv)
    /\ UNCHANGED <<path, queue, closed>>
    /\ IF path = "wasm" /\ ~canvasOk
       THEN /\ halt' = "SurfaceLookupError"
            /\ proxy' = take(proxy).rest
            /\ UNCHANGED <<state, windows, tasks, failed, calls>>
       ELSE IF ~createOk
       THEN /\ halt' = "WindowCreateError"
            /\ UNCHANGED <<state, proxy, windows, tasks, failed, calls>>
       ELSE LET window == Len(windows) + 1
                created == Stamp(<<Call("create_window", window, size[1], size[2])>>,
                                 state.some, Len(hist) + 1)
            IN /\ windows' = Append(windows, size)
               /\ IF path = "native"
                  THEN LET new == State_new(window, constructOk)
                           r == unwrap(new)
                       IN /\ calls' = calls \o created
                          /\ failed' = IF new.ok THEN failed ELSE failed \cup {window}
                          /\ UNCHANGED <<proxy, tasks>>
                          /\ IF r.panic
                             THEN /\ halt' = "InitializationError"
                                  /\ UNCHANGED state
                             ELSE /\ state' = store(state, r.value)
                                  /\ UNCHANGED halt
                  ELSE LET t == take(proxy)
                       IN /\ proxy' = t.rest
                          /\ UNCHANGED <<state, halt, failed>>
                          /\ IF t.value.some
                             THEN /\ tasks' = tasks \cup {window}
                                  /\ calls' = calls \o created \o
                                        Stamp(<<Call("spawn_local", window, 0, 0)>>,
                                              state.some, Len(hist) + 1)
                             ELSE /\ calls' = calls \o created
                                  /\ UNCHANGED tasks

\* App::resumed (lines 94-190).  canvasOk: get_element_by_id found "canvas";
\* createOk: create_window returned Ok; size: the new window's inner size;
\* constructOk: the outcome of State::new on the native build
resumed(canvasOk, createOk, size, constructOk) ==
    /\ Running
    /\ Len(hist) < MaxEvents
    /\ hist' = Append(hist, ResumedEv)
    /\ UNCHANGED <<path, queue, closed>>
    /\ IF path = "wasm" /\ ~canvasOk
       THEN /\ halt' = "SurfaceLookupError"
            /\ UNCHANGED <<state, proxy, windows, tasks, failed, calls>>
       ELSE IF ~createOk
       THEN /\ halt' = "WindowCreateError"
            /\ UNCHANGED <<state, proxy, windows, tasks, failed, calls>>
       ELSE LET window == Len(windows) + 1
                created == Stamp(<<Call("create_window", window, size[1], size[2])>>,
                                 state.some, Len(hist) + 1)
            IN /\ windows' = Append(windows, size)
               /\ IF path = "native"
                  THEN LET new == State_new(window, constructOk)
                           r == unwrap(new)
                       IN /\ calls' = calls \o created
                          /\ failed' = IF new.ok THEN failed ELSE failed \cup {window}
                          /\ UNCHANGED <<proxy, tasks>>
                          /\ IF r.panic
                             THEN /\ halt' = "InitializationError"
                                  /\ UNCHANGED state
                             ELSE /\ state' = store(state, r.value)
                                  /\ UNCHANGED halt
                  ELSE LET t == take(proxy)
                       IN /\ proxy' = t.rest
                          /\ UNCHANGED <<state, halt, failed>>
                          /\ IF t.value.some
                             THEN /\ tasks' = tasks \cup {window}
                                  /\ calls' = calls \o created \o
                                        Stamp(<<Call("spawn_local", window, 0, 0)>>,
                                              state.some, Len(hist) + 1)
                             ELSE /\ calls' = calls \o created
                                  /\ UNCHANGED tasks

\* the future given to spawn_local (lines 177-187), run by the host:
\* State::new(window).await.expect(..), then assert!(send_event(..).is_ok())
task(window, constructOk) ==
    /\ halt = "running"
    /\ window \in tasks
    /\ tasks' = tasks \ {window}
    /\ UNCHANGED <<path, state, proxy, windows, hist, closed>>
    /\ LET new == State_new(window, constructOk)
           r == unwrap(new)
       IN /\ failed' = IF new.ok THEN failed ELSE failed \cup {window}
          /\ IF r.panic
             THEN /\ halt' = "InitializationError"
                  /\ UNCHANGED <<queue, calls>>
             ELSE /\ calls' = calls \o Stamp(<<Call("send_event", window, 0, 0)>>,
                                             state.some, 0)
                  /\ IF closed
                     THEN /\ halt' = "SendError"
                          /\ UNCHANGED queue
                     ELSE /\ queue' = Append(queue, r.value)
                          /\ UNCHANGED halt

\* App::user_event (lines 195-206), called with the head of the proxy's queue;
\* an event that was sent is delivered whatever the number of events before
\* it (there are no more user events than futures spawned)
user_event ==
    /\ Running
    /\ queue # <<>>
    /\ LET event == Head(queue)
       IN /\ hist' = Append(hist, UserEv(event.window))
          /\ calls' = calls \o Stamp(user_event_calls(path, event, windows[event.window]),
                                     state.some, Len(hist) + 1)
          /\ state' = store(state, event)
    /\ queue' = Tail(queue)
    /\ UNCHANGED <<path, proxy, windows, tasks, failed, closed, halt>>

\* the window events the host can deliver: wid 0 is a window the host
\* never created
WindowEvents ==
    {CloseRequested, RedrawRequested, Focused}
    \cup {KeyboardInput(c, p) : c \in KeyCodes, p \in BOOLEAN}
    \cup {Resized(w, s) : w \in 0..Len(windows), s \in Sizes}

\* App::window_event (lines 208-245); a Resized event for a window the host
\* created comes with that window's inner size already changed
window_event(event) ==
    /\ Running
    /\ Len(hist) < MaxEvents
    /\ hist' = Append(hist, event)
    /\ calls' = calls \o Stamp(window_event_calls(state, event), state.some, Len(hist) + 1)
    /\ windows' = IF event.kind = "Resized" /\ event.wid \in DOMAIN windows
                  THEN [windows EXCEPT ![event.wid] = <<event.width, event.height>>]
                  ELSE windows
    /\ UNCHANGED <<path, state, proxy, tasks, queue, failed, closed, halt>>

\* the host loop (run_app, line 276) stops once exit() has been called
loop_exit ==
    /\ Running
    /\ exiting
    /\ closed' = TRUE
    /\ UNCHANGED <<path, state, proxy, windows, tasks, queue, failed, hist, calls, halt>>

Next ==
    \/ \E canvasOk \in BOOLEAN, createOk \in BOOLEAN, size \in Sizes, constructOk \in BOOLEAN :
          resumed(canvasOk, createOk, size, constructOk)
    \/ \E window \in tasks, constructOk \in BOOLEAN : task(window, constructOk)
    \/ user_event
    \/ \E event \in WindowEvents : window_event(event)
    \/ loop_exit

Spec == Init /\ [][Next]_vars

\* ------------------------------------------------------- derived notions
\* the controller state of the state machine, read off the App's fields
ControllerState ==
    IF halt # "running" THEN "Aborted"
    ELSE IF exiting THEN "ShuttingDown"
    ELSE IF state.some THEN "Ready"
    ELSE IF path = "wasm" /\ ~proxy.some THEN "AwaitingAsyncInit"
    ELSE "Uninitialized"

TypeOK ==
    /\ path \in Paths
    /\ state.some \in BOOLEAN
    /\ proxy.some \in BOOLEAN
    /\ tasks \subseteq DOMAIN windows
    /\ failed \subseteq DOMAIN windows
    /\ Len(hist) <= MaxEvents + Cardinality({i \in DOMAIN hist : hist[i].kind = "UserEvent"})
    /\ closed \in BOOLEAN

\* ------------------------------------------------------- reading the logs
WindowEventKinds == {"CloseRequested", "RedrawRequested", "Focused", "KeyboardInput", "Resized"}

\* this step is the handler being called with event e
Handled(e) == hist' = Append(hist, e)

\* this step is the handler being called with some window event
HandledWindowEvent ==
    /\ Len(hist') = Len(hist) + 1
    /\ hist'[Len(hist')].kind \in WindowEventKinds
    /\ Handled(hist'[Len(hist')])

\* the calls made while handling the i-th event of hist
CallsAt(i) == {j \in DOMAIN calls : calls[j].at = i}

EventsOf(kind) == {i \in DOMAIN hist : hist[i].kind = kind}

\* ------------------------------------------------------------------ C1
\* C1 as stated: no resize or render call is ever made while App.state is
\* None.
C1_NoCallWhileSlotEmpty ==
    \A j \in DOMAIN calls : calls[j].op \in {"resize", "render"} => calls[j].slot

\* C1 amended: a window event handled while App.state is None makes no call
\* at all (no resize, render, request_redraw or exit), changes nothing and
\* does not fail; the only resize or render made while App.state is None is
\* the resize that user_event makes on the State it was handed, before it
\* stores it.
C1_WindowEventNeedsState ==
    /\ [](\A j \in DOMAIN calls :
            (calls[j].op \in {"resize", "render"} /\ ~calls[j].slot)
               => /\ calls[j].op = "resize"
                  /\ calls[j].at \in EventsOf("UserEvent")
                  /\ hist[calls[j].at].wid = calls[j].window)
    /\ [][(HandledWindowEvent /\ ~state.some)
             => /\ calls' = calls
                /\ state' = state
                /\ halt' = halt]_vars

\* C1 witness: on wasm a Resized event was dropped while App.state was None
\* and the later user event made its resize before the State was stored.
C1_Witness ==
    /\ path = "wasm"
    /\ state.some
    /\ \E i \in EventsOf("Resized"), k \in EventsOf("UserEvent") :
          /\ i < k
          /\ CallsAt(i) = {}
          /\ \E j \in CallsAt(k) : calls[j].op = "resize" /\ ~calls[j].slot

\* ------------------------------------------------------------------ C2
\* C2 as stated: a resume handled in AwaitingAsyncInit or Ready is a no-op:
\* no window is created, no construction is started, App.state and
\* App.proxy are left as they were.
C2_ResumeIsNoOp ==
    [][(Handled(ResumedEv) /\ ControllerState \in {"AwaitingAsyncInit", "Ready"})
          => /\ windows' = windows
             /\ tasks' = tasks
             /\ state' = state
             /\ proxy' = proxy
             /\ Count("create_window")' = Count("create_window")]_vars

\* ------------------------------------------------------------------ C3
\* C3: on wasm the proxy is taken at most once: at most one spawn_local, at
\* most one send_event and at most one user event ever; once None the proxy
\* stays None, and it is None after any resume that got as far as the take.
C3_TokenTakenOnce ==
    /\ [](path = "wasm" =>
            /\ Count("spawn_local") <= 1
            /\ Count("send_event") <= 1
            /\ Cardinality(tasks) + Len(queue) + Cardinality(EventsOf("UserEvent")) <= 1
            /\ (Count("create_window") > 0 => ~proxy.some)
            /\ (proxy.some => Count("spawn_local") = 0))
    /\ [][~proxy.some => ~proxy'.some]_vars

\* C3 witness: wasm, three resumes handled, one task launched, its one event
\* delivered.
C3_Witness ==
    /\ path = "wasm"
    /\ Cardinality(EventsOf("Resumed")) >= 3
    /\ Count("spawn_local") = 1
    /\ Count("send_event") = 1
    /\ Cardinality(EventsOf("UserEvent")) = 1
    /\ ~proxy.some

\* ------------------------------------------------------------------ C4
\* C4 as stated: on either build, resume then Escape pressed signals exit
\* exactly once, with no resize or render call.
C4_ScenarioA ==
    hist = <<ResumedEv, EscapePressed>>
       => Count("exit") = 1 /\ Count("resize") = 0 /\ Count("render") = 0

\* C4 amended: resume then Escape pressed makes no resize or render call on
\* either build; on the native build exit is signaled exactly once, on the
\* wasm build App.state is still None, the key is dropped and exit is not
\* signaled.
C4_ScenarioAByPath ==
    hist = <<ResumedEv, EscapePressed>>
       => /\ Count("resize") = 0
          /\ Count("render") = 0
          /\ Count("exit") = IF path = "native" THEN 1 ELSE 0

\* C4 witness: the native build after resume and Escape pressed, exiting.
C4_Witness ==
    /\ path = "native"
    /\ hist = <<ResumedEv, EscapePressed>>
    /\ Count("exit") = 1

\* ------------------------------------------------------------------ C5
\* C5 as stated: on wasm, resume, the user event, then RedrawRequested give
\* exactly one request_redraw in total and the controller is Ready.
C5_ScenarioB ==
    (path = "wasm" /\ hist = <<ResumedEv, UserEv(1), RedrawRequested>>)
       => Count("request_redraw") = 1 /\ ControllerState = "Ready"

\* C5 amended: on wasm, resume, the user event, then RedrawRequested give
\* exactly two request_redraw calls on the window in total, one made by
\* user_event on receipt and one made by render, and the controller is Ready.
C5_ScenarioBTwoRedraws ==
    (path = "wasm" /\ hist = <<ResumedEv, UserEv(1), RedrawRequested>>)
       => /\ Count("request_redraw") = 2
          /\ \A j \in CallsOf("request_redraw") : calls[j].window = 1
          /\ \E j \in CallsAt(2) : calls[j].op = "request_redraw"
          /\ \E j \in CallsAt(3) : calls[j].op = "request_redraw"
          /\ Count("render") = 1
          /\ ControllerState = "Ready"

\* C5 witness: the wasm build at the end of scenario B.
C5_Witness ==
    /\ path = "wasm"
    /\ hist = <<ResumedEv, UserEv(1), RedrawRequested>>
    /\ state = Some(1)

\* ------------------------------------------------------------------ C6
\* the events the claim calls ignored, for the slot `st`
Ignored(st, e) ==
    /\ e.kind \in WindowEventKinds
    /\ \/ ~st.some
       \/ e.kind = "Focused"
       \/ e.kind = "KeyboardInput" /\ ~(e.code = "Escape" /\ e.pressed)

\* C6: handling an ignored event (a key other than Escape pressed, a window
\* event of another kind, any window event while App.state is None) leaves
\* App.state, App.proxy and the exit flag as they were, makes no call and
\* does not fail; so after any sequence of window events handled before the
\* first resume the controller is still Uninitialized.
C6_IgnoredEventsChangeNothing ==
    /\ [][(HandledWindowEvent /\ Ignored(state, hist'[Len(hist')]))
             => /\ state' = state
                /\ proxy' = proxy
                /\ exiting' = exiting
                /\ calls' = calls
                /\ halt' = halt
                /\ ControllerState' = ControllerState]_vars
    /\ []((hist # <<>> /\ \A i \in DOMAIN hist : hist[i].kind \in WindowEventKinds)
             => /\ state = None
                /\ proxy = (IF path = "wasm" THEN Some(0) ELSE None)
                /\ calls = <<>>
                /\ ControllerState = "Uninitialized")

\* C6 witness: Resized(800, 600) was dropped before any resume, and later,
\* with the State stored, Escape released was ignored.
C6_Witness ==
    /\ Len(hist) >= 3
    /\ hist[1].kind = "Resized" /\ hist[1].width = 800 /\ hist[1].height = 600
    /\ hist[Len(hist)] = KeyboardInput("Escape", FALSE)
    /\ state.some
    /\ calls # <<>>
    /\ \A j \in DOMAIN calls : calls[j].op = "create_window"
    /\ ControllerState = "Ready"

\* ------------------------------------------------------------------ C7
\* C7: in Ready, CloseRequested and Escape pressed have the same effect:
\* each makes exactly one call, exit, and the controller is then
\* ShuttingDown with App.state untouched; no resize or render is called.
C7_CloseAndEscapeAlike ==
    /\ [](state.some =>
            window_event_calls(state, CloseRequested)
               = window_event_calls(state, EscapePressed))
    /\ [][(ControllerState = "Ready"
             /\ (Handled(CloseRequested) \/ Handled(EscapePressed)))
             => /\ calls' = Append(calls,
                        [op |-> "exit", window |-> 0, width |-> 0, height |-> 0,
                         slot |-> TRUE, at |-> Len(hist')])
                /\ state' = state
                /\ ControllerState' = "ShuttingDown"]_vars

\* C7 witness: Escape pressed was handled in Ready and exit was signaled.
C7_Witness ==
    /\ hist # <<>>
    /\ hist[Len(hist)] = EscapePressed
    /\ Count("exit") = 1
    /\ ControllerState = "ShuttingDown"
    /\ CloseRequested \notin {hist[i] : i \in DOMAIN hist}

\* ------------------------------------------------------------------ C8
\* C8: handling the user event that carries the State of window w makes
\* exactly two calls, request_redraw on w and then resize with w's current
\* inner width and height, both while App.state is still None, and then
\* stores the State: App.state is Some(w) and the controller is Ready.
C8_UserEventRedrawResizeStore ==
    [][\A w \in DOMAIN windows :
          Handled(UserEv(w))
             => /\ calls' = calls \o
                     << [op |-> "request_redraw", window |-> w, width |-> 0,
                         height |-> 0, slot |-> FALSE, at |-> Len(hist')],
                        [op |-> "resize", window |-> w, width |-> windows[w][1],
                         height |-> windows[w][2], slot |-> FALSE, at |-> Len(hist')] >>
                /\ state' = Some(w)
                /\ ControllerState' = "Ready"]_vars

\* C8 witness: the window was resized after it was created and before the
\* user event arrived, and user_event called resize with the new size.
C8_Witness ==
    /\ state.some
    /\ EventsOf("UserEvent") # {}
    /\ \E j \in CallsOf("resize"), c \in CallsOf("create_window") :
          /\ ~calls[j].slot
          /\ calls[c].window = calls[j].window
          /\ <<calls[c].width, calls[c].height>> # <<calls[j].width, calls[j].height>>
          /\ windows[calls[j].window] = <<calls[j].width, calls[j].height>>

\* ------------------------------------------------------------------ C9
\* C9: a State::new failure is fatal on both builds: the process has
\* stopped with the initialization failure, nothing runs afterwards, no
\* send_event was made for the failed window, its State is neither queued
\* nor stored, and the controller is not Ready.
C9_ConstructionFailureIsFatal ==
    /\ [](failed # {} =>
            /\ halt = "InitializationError"
            /\ ControllerState # "Ready"
            /\ \A w \in failed :
                  /\ state # Some(w)
                  /\ \A i \in DOMAIN queue : queue[i] # Some(w)
                  /\ \A j \in CallsOf("send_event") : calls[j].window # w
                  /\ UserEv(w) \notin {hist[i] : i \in DOMAIN hist})
    /\ [][failed # {} => UNCHANGED vars]_vars

\* C9 witness: the wasm task's construction failed after window events had
\* been dropped while it was pending.
C9_Witness ==
    /\ path = "wasm"
    /\ failed = {1}
    /\ halt = "InitializationError"
    /\ Len(hist) >= 2
    /\ ~state.some

\* ------------------------------------------------------------------ C10
\* C10 as stated: exit is signaled only in Ready, and only for
\* CloseRequested or Escape pressed.
C10_ExitOnlyInReady ==
    [][Count("exit")' # Count("exit")
          => /\ ControllerState = "Ready"
             /\ (Handled(CloseRequested) \/ Handled(EscapePressed))]_vars

\* C10 amended: exit is signaled only while App.state is Some, that is in
\* Ready or, again, in ShuttingDown after an earlier exit signal, and only
\* for CloseRequested or Escape pressed; CloseRequested or Escape pressed in
\* Uninitialized or AwaitingAsyncInit and every other event in any state
\* never signal exit.
C10_ExitOnlyWithState ==
    [][Count("exit")' # Count("exit")
          => /\ state.some
             /\ ControllerState \in {"Ready", "ShuttingDown"}
             /\ Count("exit")' = Count("exit") + 1
             /\ (Handled(CloseRequested) \/ Handled(EscapePressed))]_vars

\* C10 witness: CloseRequested and Escape pressed were both dropped before
\* the State existed, and a later CloseRequested signaled exit.
C10_Witness ==
    /\ Len(hist) = 4
    /\ hist[1] = CloseRequested
    /\ hist[2] = EscapePressed
    /\ hist[3] = ResumedEv
    /\ hist[4] = CloseRequested
    /\ Count("exit") = 1
    /\ calls[Len(calls)].at = 4

\* ------------------------------------------------------------------ C11
\* C11 as stated: once exit has been signaled, no later event causes a
\* resize call, a render call, a redraw request or a second exit signal, and
\* the controller never returns to Ready.
C11_ShuttingDownTerminal ==
    [][exiting
          => /\ Count("resize")' = Count("resize")
             /\ Count("render")' = Count("render")
             /\ Count("request_redraw")' = Count("request_redraw")
             /\ Count("exit")' = Count("exit")
             /\ ControllerState' # "Ready"]_vars

\* C11 amended: once exit has been signaled the signal stays and the
\* controller never returns to Ready; App.state stays Some, no construction
\* is pending and no user event is delivered any more; once the host loop
\* has stopped nothing is handled and no call is made.  Window events the
\* host still delivers between the exit signal and the loop stopping are
\* handled as in Ready.
C11_ExitSignalStays ==
    /\ [](exiting => state.some /\ tasks = {} /\ queue = <<>>)
    /\ [][exiting
             => /\ exiting'
                /\ ControllerState' \in {"ShuttingDown", "Aborted"}
                /\ (hist' # hist => hist'[Len(hist')].kind # "UserEvent")]_vars
    /\ [][closed => UNCHANGED vars]_vars

\* C11 witness: after the exit signal a Resized event was still forwarded
\* to resize, then the host loop stopped.
C11_Witness ==
    /\ closed
    /\ Count("exit") = 1
    /\ \E x \in CallsOf("exit"), r \in CallsOf("resize") :
          /\ x < r
          /\ hist[calls[r].at].kind = "Resized"
          /\ calls[r].slot

\* ------------------------------------------------------------------ C12
\* C12: the first resume, handled in Uninitialized, that returns has the
\* outcome its build fixes.  Native: App.state is Some of the window just
\* created and the controller is Ready when the handler returns, and no
\* state exists in which a window was created and its State not yet stored.
\* Wasm: the handler returns with App.state None, the proxy taken and the
\* construction of the new window pending (AwaitingAsyncInit), and App.state
\* is only ever filled by user_event.
C12_FirstResumeByPath ==
    /\ [][(Handled(ResumedEv) /\ ControllerState = "Uninitialized" /\ halt' = "running")
             => IF path = "native"
                THEN /\ state' = Some(Len(windows'))
                     /\ Len(windows') = Len(windows) + 1
                     /\ tasks' = {} /\ queue' = <<>>
                     /\ ControllerState' = "Ready"
                ELSE /\ state' = None
                     /\ proxy.some /\ ~proxy'.some
                     /\ tasks' = {Len(windows')}
                     /\ Len(windows') = Len(windows) + 1
                     /\ queue' = <<>>
                     /\ ControllerState' = "AwaitingAsyncInit"]_vars
    /\ []((path = "native" /\ halt = "running")
             => state = (IF windows = <<>> THEN None ELSE Some(Len(windows))))
    /\ [][(path = "wasm" /\ state' # state)
             => /\ ~state.some
                /\ queue # <<>>
                /\ Handled(UserEv(Head(queue).window))
                /\ state' = Head(queue)]_vars

\* C12 witness (wasm): the first resume returned with App.state None, a
\* window event was handled while the task was pending, and the user event
\* filled the slot later.
C12_Witness ==
    /\ path = "wasm"
    /\ Len(hist) = 3
    /\ hist[1] = ResumedEv
    /\ hist[2].kind \in WindowEventKinds
    /\ hist[3] = UserEv(1)
    /\ state = Some(1)
    /\ ~proxy.some

\* ------------------------------------------------------------------ C13
\* C13 as stated: before exit is signaled, once App.state is Some it never
\* becomes None again and is never replaced by a different State.
C13_StateCreatedOnceAndKept ==
    [][(state.some /\ ~exiting) => state' = state]_vars

\* ------------------------------------------------------------------ C14
\* the wasm build with a host that runs a spawned future and delivers a
\* sent user event: spawn_local schedules the future on the browser's event
\* loop and the proxy's events are handed to the same dispatch stream
InitAsync == Init /\ path = "wasm"

AsyncFairSpec ==
    /\ InitAsync
    /\ [][Next]_vars
    /\ WF_vars(\E window \in tasks, constructOk \in BOOLEAN : task(window, constructOk))
    /\ WF_vars(user_event)

\* C14: on the wasm build, once the first resume has launched the
\* construction, the controller eventually is Ready, unless the construction
\* failed or a later resume ended the process (absent canvas, create_window
\* failure); window events handled in between do not prevent it.
C14_EventuallyReady ==
    (path = "wasm" /\ tasks # {})
       ~> \/ ControllerState = "Ready"
          \/ failed # {}
          \/ halt \in {"SurfaceLookupError", "WindowCreateError"}

\* C14 witness: Ready was reached after window events, a close signal among
\* them, had been dropped between the resume and the user event.
C14_Witness ==
    /\ path = "wasm"
    /\ ControllerState = "Ready"
    /\ Len(hist) >= 4
    /\ hist[1] = ResumedEv
    /\ hist[2] = CloseRequested
    /\ hist[3].kind \in WindowEventKinds
    /\ hist[Len(hist)].kind = "UserEvent"

\* ------------------------------------------------------------------ C15
\* C15: on the wasm build exit is never signaled, and the host loop never
\* stopped, while a construction is pending: App.state is still None then.
\* So every send_event finds the loop open, puts its event in the queue, and
\* the assertion on its result never fails.
C15_NoExitWhileTaskPending ==
    /\ path = "wasm" /\ tasks # {} => ~state.some /\ ~exiting /\ ~closed
    /\ halt # "SendError"
    /\ path = "wasm" =>
          Count("send_event") = Len(queue) + Cardinality(EventsOf("UserEvent"))

\* C15 witness: a close signal and Escape pressed arrived while the task
\* was pending, were dropped, and the task then sent its event.
C15_Witness ==
    /\ path = "wasm"
    /\ hist = <<ResumedEv, CloseRequested, EscapePressed>>
    /\ Count("send_event") = 1
    /\ Len(queue) = 1
    /\ halt = "running"

\* ------------------------------------------------------------------ C16
\* App.state was Some when the i-th event of hist was handled: a State is
\* stored by a resume that created its window (native) or by a user event
\* (wasm), and is never cleared
SlotFilledAt(i) ==
    IF path = "native"
    THEN \E j \in CallsOf("create_window") : calls[j].at < i
    ELSE \E k \in EventsOf("UserEvent") : k < i

\* exit had been signaled before the i-th event of hist was handled
ExitedBefore(i) == \E j \in CallsOf("exit") : calls[j].at < i

\* the render calls and the redraw requests made through render
RenderRedraws ==
    {j \in CallsOf("request_redraw") : hist[calls[j].at].kind = "RedrawRequested"}

\* C16 as stated: the number of redraw requests issued through render equals
\* the number of RedrawRequested events handled in Ready.
C16_RenderCountsReady ==
    Cardinality(RenderRedraws)
       = Cardinality({i \in EventsOf("RedrawRequested") :
                         SlotFilledAt(i) /\ ~ExitedBefore(i)})

\* C16 amended: while App.state is Some (Ready, and ShuttingDown until the
\* host loop stops) every RedrawRequested is forwarded to render, which
\* makes exactly one request_redraw on the owned window and nothing else;
\* the number of redraw requests made through render equals the number of
\* RedrawRequested events handled while App.state was Some; each such event
\* leaves a new request for the host to answer.
C16_RenderCountsFilledSlot ==
    /\ [](/\ Cardinality(RenderRedraws)
               = Cardinality({i \in EventsOf("RedrawRequested") : SlotFilledAt(i)})
          /\ Count("render") = Cardinality(RenderRedraws)
          /\ \A i \in EventsOf("RedrawRequested") :
                Cardinality(CallsAt(i)) = IF SlotFilledAt(i) THEN 2 ELSE 0)
    /\ [][(Handled(RedrawRequested) /\ state.some)
             => /\ calls' = calls \o
                     << [op |-> "render", window |-> state.window, width |-> 0,
                         height |-> 0, slot |-> TRUE, at |-> Len(hist')],
                        [op |-> "request_redraw", window |-> state.window, width |-> 0,
                         height |-> 0, slot |-> TRUE, at |-> Len(hist')] >>
                /\ state' = state]_vars

\* C16 witness: one RedrawRequested rendered in Ready and one more after
\* the exit signal.
C16_Witness ==
    /\ path = "native"
    /\ hist = <<ResumedEv, RedrawRequested, CloseRequested, RedrawRequested>>
    /\ Count("render") = 2
    /\ Count("request_redraw") = 2

\* ------------------------------------------------------------------ C17
\* C17: on the wasm build a resume that fails at the lookup of "canvas"
\* fails before any effect: no window is created, the proxy is not taken,
\* nothing is spawned, no call is made and App.state is as it was (None for
\* a first resume); the native build has no such lookup.
C17_LookupFailureBeforeAnyEffect ==
    /\ [](halt = "SurfaceLookupError" => path = "wasm")
    /\ []((halt = "SurfaceLookupError" /\ hist = <<ResumedEv>>)
             => /\ windows = <<>>
                /\ proxy.some
                /\ tasks = {}
                /\ calls = <<>>
                /\ state = None)
    /\ [][(halt = "running" /\ halt' = "SurfaceLookupError")
             => /\ Handled(ResumedEv)
                /\ UNCHANGED <<state, proxy, windows, tasks, queue, failed, calls>>]_vars

\* C17 witness: the first resume on wasm failed at the lookup, the proxy
\* still present.
C17_Witness ==
    /\ path = "wasm"
    /\ halt = "SurfaceLookupError"
    /\ hist = <<ResumedEv>>
    /\ proxy.some
    /\ windows = <<>>
====
